---- MODULE Spec2Model ----
(***************************************************************************)
(* Flight-path optimizer: corridor construction, wind-weighted layered     *)
(* graph and A* search (optimize.py, flight_utils.py, wind_fetcher.py),    *)
(* and the wind-adjusted route time of main.py.                            *)
(*                                                                         *)
(* Number representation.  The program computes in floating point; the     *)
(* model computes in fixed point:                                          *)
(*   - a coordinate is an integer count of grid units, UnitsPerKey grid    *)
(*     units being one step of the fourth decimal that round(x, 4) keeps;  *)
(*   - an angle is an integer number of degrees, cos and sin come from a   *)
(*     table scaled by TrigScale;                                          *)
(*   - a distance is an integer count of 1/DistScale grid-unit lengths (a  *)
(*     lateral offset is given directly in grid-unit lengths);             *)
(*   - a speed is an integer, a time is distance * TimeScale \div speed.   *)
(* Routes are a few hundred grid units long and lie at the equator, where  *)
(* the spherical formulas reduce to their planar small-angle forms.        *)
(***************************************************************************)
EXTENDS Integers, Sequences, FiniteSets, TLC

\* ---------------------------------------------------------------- bounds
MaxSlices == 3          \* largest slice count a run is started with
MaxFailures == 1        \* provider failures injected into one run

\* ------------------------------------------------- fixed-point conventions
UnitsPerKey == 4        \* grid units per 0.0001 degree (round(x, 4))
UnitsPerDeg == 40000    \* grid units per degree
TrigScale == 10000      \* scale of the cos/sin table
DistScale == 100        \* distance resolution per grid-unit length
TimeScale == 100000     \* time resolution

MinGroundSpeed == 40    \* the floor in max(40.0, cruise_kmh + tail)

\* ------------------------------------------------------------- arithmetic
Abs(x) == IF x < 0 THEN -x ELSE x

Max(a, b) == IF a >= b THEN a ELSE b

\* a / b rounded to the nearest integer (b > 0)
RoundDiv(a, b) == (2 * a + b) \div (2 * b)

RECURSIVE IsqrtIter(_, _, _)
IsqrtIter(n, lo, hi) ==
    IF lo >= hi THEN lo
    ELSE LET mid == (lo + hi + 1) \div 2
         IN  IF mid * mid <= n THEN IsqrtIter(n, mid, hi)
                               ELSE IsqrtIter(n, lo, mid - 1)

\* floor of the square root
Isqrt(n) == IsqrtIter(n, 0, 46340)

\* cos of 0..90 degrees, scaled by TrigScale
CosTable ==
 << 10000, 9998, 9994, 9986, 9976, 9962, 9945, 9925, 9903, 9877, 9848, 9816, 9781,
    9744, 9703, 9659, 9613, 9563, 9511, 9455, 9397, 9336, 9272, 9205, 9135, 9063,
    8988, 8910, 8829, 8746, 8660, 8572, 8480, 8387, 8290, 8192, 8090, 7986, 7880,
    7771, 7660, 7547, 7431, 7314, 7193, 7071, 6947, 6820, 6691, 6561, 6428, 6293,
    6157, 6018, 5878, 5736, 5592, 5446, 5299, 5150, 5000, 4848, 4695, 4540, 4384,
    4226, 4067, 3907, 3746, 3584, 3420, 3256, 3090, 2924, 2756, 2588, 2419, 2250,
    2079, 1908, 1736, 1564, 1392, 1219, 1045, 872, 698, 523, 349, 175, 0 >>

\* math.cos(math.radians(deg)) for any integer number of degrees
Cos(deg) ==
    LET a == deg % 360
    IN  IF a <= 90 THEN CosTable[a + 1]
        ELSE IF a <= 180 THEN -CosTable[(180 - a) + 1]
        ELSE IF a <= 270 THEN -CosTable[(a - 180) + 1]
        ELSE CosTable[(360 - a) + 1]

Sin(deg) == Cos(deg - 90)

\* the largest t in lo..hi with tan t <= y / x, for x, y >= 0 not both 0
RECURSIVE AtanSearch(_, _, _, _)
AtanSearch(y, x, lo, hi) ==
    IF lo >= hi THEN lo
    ELSE LET mid == (lo + hi + 1) \div 2
         IN  IF y * Cos(mid) - x * Sin(mid) >= 0 THEN AtanSearch(y, x, mid, hi)
                                                 ELSE AtanSearch(y, x, lo, mid - 1)

\* atan(y / x) to the nearest degree, in 0..90, for x, y >= 0 not both 0
AtanQuadrant(y, x) ==
    LET t == AtanSearch(y, x, 0, 90)
        off(a) == Abs(y * Cos(a) - x * Sin(a))
    IN  IF t < 90 /\ off(t + 1) < off(t) THEN t + 1 ELSE t

\* math.degrees(math.atan2(y, x)) to the nearest degree; atan2(0, 0) is 0
Atan2Deg(y, x) ==
    IF x = 0 /\ y = 0 THEN 0
    ELSE IF x >= 0 /\ y >= 0 THEN AtanQuadrant(y, x)
    ELSE IF x < 0 /\ y >= 0 THEN 180 - AtanQuadrant(y, -x)
    ELSE IF x < 0 THEN AtanQuadrant(-y, -x) - 180
    ELSE -AtanQuadrant(-y, x)

\* a longitude difference folded into [-180, 180) degrees: sin and cos of a
\* difference do not see whole turns
WrapLon(d) == ((d + 180 * UnitsPerDeg) % (360 * UnitsPerDeg)) - 180 * UnitsPerDeg

\* ------------------------------------------------------- flight_utils.py
haversine_km(lat1, lon1, lat2, lon2) ==
    LET dlat == lat2 - lat1
        dlon == WrapLon(lon2 - lon1)
    IN  Isqrt(DistScale * DistScale * (dlat * dlat + dlon * dlon))

bearing_between(lat1, lon1, lat2, lon2) ==
    LET y == WrapLon(lon2 - lon1)
        x == lat2 - lat1
    IN  (Atan2Deg(y, x) + 360) % 360

destination_point(lat, lon, bearing_deg, distance_km) ==
    LET lat2 == lat + RoundDiv(distance_km * Cos(bearing_deg), TrigScale)
        lon2 == lon + RoundDiv(distance_km * Sin(bearing_deg), TrigScale)
    IN  << lat2, ((lon2 + 180 * UnitsPerDeg) % (360 * UnitsPerDeg)) - 180 * UnitsPerDeg >>

\* the result of a call: a value, or the exception it raised
Ok(v) == [exc |-> "none", val |-> v]
Raise(e) == [exc |-> e, val |-> << >>]

great_circle_points(lat1, lon1, lat2, lon2, n_points) ==
    IF lat1 = lat2 /\ WrapLon(lon2 - lon1) = 0
    THEN Ok([i \in 1..(n_points + 1) |-> << lat1, lon1 >>])
    ELSE IF n_points + 1 >= 1 /\ n_points = 0
    THEN Raise("ZeroDivisionError")
    ELSE Ok([i \in 1..(n_points + 1) |->
               << lat1 + RoundDiv((lat2 - lat1) * (i - 1), n_points),
                  WrapLon(lon1 + RoundDiv(WrapLon(lon2 - lon1) * (i - 1), n_points)) >>])

\* -------------------------------------------------------- wind_fetcher.py
ZeroWind == [windspeed_kmh |-> 0, winddirection_deg |-> 0]

\* The exceptions get_current_wind raises: requests.get (transport, timeout),
\* raise_for_status, resp.json / the missing current_weather, a missing field.
ProviderFailures == {"ConnectionError", "HTTPError", "ValueError", "KeyError"}

\* The weather the provider reports, as a function of the queried position.
WindFields == {"calm", "westerly", "easterly", "jet"}

WindAt(f, lat, lon) ==
    CASE f = "calm"     -> ZeroWind
      [] f = "westerly" -> [windspeed_kmh |-> 200, winddirection_deg |-> 270]
      [] f = "easterly" -> [windspeed_kmh |-> 200, winddirection_deg |-> 90]
      [] f = "jet"      -> IF lat >= 1 /\ lon >= 48
                           THEN [windspeed_kmh |-> 200, winddirection_deg |-> 270]
                           ELSE ZeroWind

\* (variant: the from-direction taken for the direction the wind blows to)
tailwind_component_kmh_from_as_to(windspeed_kmh, winddirection_from_deg, aircraft_bearing_deg) ==
    LET diff == ((winddirection_from_deg - aircraft_bearing_deg + 180) % 360) - 180
    IN  RoundDiv(windspeed_kmh * Cos(diff), TrigScale)

tailwind_component_kmh(windspeed_kmh, winddirection_from_deg, aircraft_bearing_deg) ==
    LET wind_to == (winddirection_from_deg + 180) % 360
        diff == ((wind_to - aircraft_bearing_deg + 180) % 360) - 180
    IN  RoundDiv(windspeed_kmh * Cos(diff), TrigScale)

\* ------------------------------------------------------------ optimize.py
\* round(x, 4): to the nearest multiple of UnitsPerKey, a tie to the even one
Round4(x) ==
    LET q == x \div UnitsPerKey
        r == x % UnitsPerKey
    IN  IF 2 * r < UnitsPerKey THEN q * UnitsPerKey
        ELSE IF 2 * r > UnitsPerKey THEN (q + 1) * UnitsPerKey
        ELSE IF q % 2 = 0 THEN q * UnitsPerKey ELSE (q + 1) * UnitsPerKey

\* (a + b) / 2.0
Mid(a, b) == RoundDiv(a + b, 2)

\* (variant: the two sides exchanged)
PerpBearing_swapped(bearing, offset) ==
    IF offset > 0 THEN (bearing - 90) % 360 ELSE (bearing + 90) % 360

\* the bearing of a lateral node of the given offset
PerpBearing(bearing, offset) ==
    IF offset > 0 THEN (bearing + 90) % 360 ELSE (bearing - 90) % 360

\* the nodes of one slice, between the great-circle points a and b
SliceNodes(a, b, lateral_offsets_km) ==
    LET mid_lat == Mid(a[1], b[1])
        mid_lon == Mid(a[2], b[2])
        bearing == bearing_between(a[1], a[2], b[1], b[2])
    IN  [n \in 1..Len(lateral_offsets_km) |->
            LET offset == lateral_offsets_km[n]
            IN  IF offset = 0 THEN << mid_lat, mid_lon >>
                ELSE destination_point(mid_lat, mid_lon,
                                       PerpBearing(bearing, offset), Abs(offset))]

build_corridor_slices(lat1, lon1, lat2, lon2, slices, lateral_offsets_km) ==
    LET gc == great_circle_points(lat1, lon1, lat2, lon2, slices)
    IN  IF gc.exc # "none" THEN gc
        ELSE Ok([i \in 1..(Len(gc.val) - 1) |->
                    SliceNodes(gc.val[i], gc.val[i + 1], lateral_offsets_km)])

\* node ids are (i, j), counted from 0 as in the program
NodeIds(sn) ==
    UNION {{<< i - 1, j - 1 >> : j \in 1..Len(sn[i])} : i \in 1..Len(sn)}

NoNode == << -1, -1 >>      \* None, where a node id is expected

\* the (i, j, k) of build_graph's three nested loops, in the order they run
RECURSIVE EdgeLoop(_, _)
EdgeLoop(sn, i) ==
    IF i > Len(sn) - 2 THEN << >>
    ELSE LET width == Len(sn[i + 2])
         IN  [n \in 1..(Len(sn[i + 1]) * width) |->
                 << i, (n - 1) \div width, (n - 1) % width >>]
             \o EdgeLoop(sn, i + 1)

EdgesInOrder(sn) == EdgeLoop(sn, 0)

\* (variant: the edge stays in its own layer)
EdgeTarget_same_layer(i, j, k) == << i, k >>

\* the node an edge of the loop position (i, j, k) leads to
EdgeTarget(i, j, k) == << i + 1, k >>

\* (variant: no floor)
ground_speed_of_unclamped(cruise_kmh, tail) == cruise_kmh + tail

ground_speed_of(cruise_kmh, tail) == Max(MinGroundSpeed, cruise_kmh + tail)

\* d / speed, in time units (a negative speed gives a negative time)
Hours(d, speed) ==
    IF speed < 0 THEN -((d * TimeScale) \div (-speed))
    ELSE (d * TimeScale) \div speed

\* (variant: except ValueError)
CaughtInBuildGraph_ValueError_only(exc) == exc = "ValueError"

\* except Exception: every exception class the provider can raise derives from it
CaughtInBuildGraph(exc) == exc \in ProviderFailures \cup {"ZeroDivisionError", "IndexError"}

\* G.add_edge(u, v, weight = ..., distance_km = ...), both nodes being in G
add_edge(graph, u, v, attrs) ==
    [graph EXCEPT !.adj[u] = IF << u, v >> \in DOMAIN graph.edges THEN @ ELSE Append(@, v),
                  !.edges = (<< u, v >> :> attrs) @@ @]

heuristic(u, v, graph, cruise_kmh) ==
    LET a == graph.nodes[u]
        b == graph.nodes[v]
    IN  Hours(haversine_km(a[1], a[2], b[1], b[2]), cruise_kmh)

\* (variant: the center index one too far)
find_endpoints_nodes_off_by_one(sn) ==
    IF Len(sn) = 0 THEN Raise("IndexError")
    ELSE LET center_idx == Len(sn[1]) \div 2 + 1
         IN  Ok(<< << 0, center_idx >>, << Len(sn) - 1, center_idx >> >>)

find_endpoints_nodes(sn) ==
    IF Len(sn) = 0 THEN Raise("IndexError")
    ELSE LET center_idx == Len(sn[1]) \div 2
         IN  Ok(<< << 0, center_idx >>, << Len(sn) - 1, center_idx >> >>)

\* ------------------------------------------------- networkx.astar_path
\* One heap entry: (priority, next(c), node, cost, parent).  heappop takes the
\* entry of least priority, and among those the one pushed first.
\* (variant: among equal priorities the entry pushed last)
QueueMin_last_pushed(q) ==
    CHOOSE e \in q : \A o \in q : e.f < o.f \/ (e.f = o.f /\ e.c >= o.c)

QueueMin(q) ==
    CHOOSE e \in q : \A o \in q : e.f < o.f \/ (e.f = o.f /\ e.c <= o.c)

\* the loop over the neighbours of curnode: each one whose known cost is not
\* already as good is (re)entered into the open set
RECURSIVE Relax(_, _, _, _, _, _, _)
Relax(st, graph, curnode, dist, nbrs, target, cruise_kmh) ==
    IF nbrs = << >> THEN st
    ELSE LET neighbor == Head(nbrs)
             ncost == dist + graph.edges[<< curnode, neighbor >>].weight
             known == neighbor \in DOMAIN st.enqueued
         IN  IF known /\ st.enqueued[neighbor].cost <= ncost
             THEN Relax(st, graph, curnode, dist, Tail(nbrs), target, cruise_kmh)
             ELSE LET h == IF known THEN st.enqueued[neighbor].h
                           ELSE heuristic(neighbor, target, graph, cruise_kmh)
                      pushed == [f |-> ncost + h, c |-> st.c, node |-> neighbor,
                                 cost |-> ncost, parent |-> curnode]
                  IN  Relax([queue |-> st.queue \cup {pushed},
                             enqueued |-> (neighbor :> [cost |-> ncost, h |-> h]) @@ st.enqueued,
                             c |-> st.c + 1],
                            graph, curnode, dist, Tail(nbrs), target, cruise_kmh)

\* (variant: the walk back stops one node short of the source)
RECURSIVE PathTo_without_source(_, _, _)
PathTo_without_source(expl, node, tail) ==
    IF node = NoNode \/ expl[node] = NoNode THEN tail
    ELSE PathTo_without_source(expl, expl[node], << node >> \o tail)

\* the path from the source to the node popped, along the explored parents
RECURSIVE PathTo(_, _, _)
PathTo(expl, node, tail) ==
    IF node = NoNode THEN tail
    ELSE PathTo(expl, expl[node], << node >> \o tail)

\* sum(G.edges[path[i], path[i+1]]['weight'] for i in range(len(path)-1))
RECURSIVE PathWeight(_, _)
PathWeight(graph, p) ==
    IF Len(p) < 2 THEN 0
    ELSE graph.edges[<< p[1], p[2] >>].weight + PathWeight(graph, Tail(p))

\* sum of haversine_km over consecutive points
RECURSIVE PolylineLength(_)
PolylineLength(pts) ==
    IF Len(pts) < 2 THEN 0
    ELSE haversine_km(pts[1][1], pts[1][2], pts[2][1], pts[2][2])
         + PolylineLength(Tail(pts))

\* ------------------------------------------------------------------ state
VARIABLES
    cfg,            \* the arguments of run_optimization, airports resolved
    field,          \* the weather the provider reports during the run
    pc,             \* where run_optimization stands
    error,          \* the exception that left run_optimization ("none": none)
    stages,         \* the stages that have done work so far
    slices_nodes,   \* build_corridor_slices' result
    G,              \* the DiGraph: nodes, adjacency in insertion order, edges
    wind_cache,     \* build_graph's wind_cache
    edge_idx,       \* position of build_graph's edge loops
    provider_calls, \* key -> number of get_current_wind calls made for it
    failures,       \* provider calls that raised so far
    edge_trace,     \* per edge: the wind, tailwind and ground speed used
    endpoints,      \* (start, goal) of find_endpoints_nodes
    queue,          \* astar_path: the heap
    enqueued,       \* astar_path: node -> (cost, h)
    explored,       \* astar_path: node -> parent
    counter,        \* astar_path: the count() c
    path,           \* the path astar_path returned
    result,         \* gc_km, naive_h, opt_h
    fn,             \* a library function called on its own ("none": none)
    args,           \* its arguments
    ret,            \* its return value, once it has returned
    time_args,      \* compute_wind_adjusted_time_hours: points, cruise_kmh, sample_rate
    time_pc,        \* where compute_wind_adjusted_time_hours stands
    time_error,     \* the exception that left it ("none": none)
    seg_i,          \* its loop variable i
    seg_cache,      \* its wind_cache
    total_hours,    \* its total_hours
    seg_trace       \* per segment i: provider calls, wind, tailwind, ground speed

vars == << cfg, field, pc, error, stages, slices_nodes, G, wind_cache, edge_idx,
           provider_calls, failures, edge_trace, endpoints, queue, enqueued,
           explored, counter, path, result, fn, args, ret, time_args, time_pc,
           time_error, seg_i, seg_cache, total_hours, seg_trace >>

graphVars == << G, wind_cache, edge_idx, provider_calls, failures, edge_trace >>
searchVars == << queue, enqueued, explored, counter, path >>
\* what run_optimization does not touch
callVars == << fn, args, ret >>
timeVars == << time_args, time_pc, time_error, seg_i, seg_cache, total_hours, seg_trace >>
auxVars == << callVars, timeVars >>

\* ----------------------------------------------------------------- inputs
Routes == { << 0, 0, 0, 96 >>, << 0, 0, 0, 0 >> }
OffsetLists == { << >>, << 0 >>, << -6, 0 >>, << 0, 2 >>, << -6, 0, 6 >> }
CruiseSpeeds == { 50, 250, 900 }

EmptyGraph == [nodes |-> << >>, adj |-> << >>, edges |-> << >>]

\* compute_wind_adjusted_time_hours is not running
NoTiming ==
    /\ time_args = << >>
    /\ time_pc = "idle"
    /\ time_error = "none"
    /\ seg_i = 0
    /\ seg_cache = << >>
    /\ total_hours = 0
    /\ seg_trace = << >>

\* no library function is called on its own
NoCall ==
    /\ fn = "none"
    /\ args = << >>
    /\ ret = [done |-> FALSE, val |-> 0]

Init ==
    /\ \E r \in Routes, s \in -1..MaxSlices, o \in OffsetLists,
          c \in CruiseSpeeds, w \in BOOLEAN :
          cfg = [lat1 |-> r[1], lon1 |-> r[2], lat2 |-> r[3], lon2 |-> r[4],
                 slices |-> s, lateral_offsets_km |-> o, cruise_kmh |-> c,
                 use_wind |-> w]
    /\ field \in (IF cfg.use_wind THEN WindFields ELSE {"calm"})
    /\ pc = "build_corridor_slices"
    /\ error = "none"
    /\ stages = {}
    /\ slices_nodes = << >>
    /\ G = EmptyGraph
    /\ wind_cache = << >>
    /\ edge_idx = 1
    /\ provider_calls = << >>
    /\ failures = 0
    /\ edge_trace = << >>
    /\ endpoints = << NoNode, NoNode >>
    /\ queue = {}
    /\ enqueued = << >>
    /\ explored = << >>
    /\ counter = 0
    /\ path = << >>
    /\ result = [gc_km |-> 0, naive_h |-> 0, opt_h |-> 0]
    /\ NoCall
    /\ NoTiming

\* ---------------------------------------------------------------- actions
\* run_optimization, line 114: the corridor, or the exception it raises
BuildCorridorSlices ==
    /\ pc = "build_corridor_slices"
    /\ LET r == build_corridor_slices(cfg.lat1, cfg.lon1, cfg.lat2, cfg.lon2,
                                      cfg.slices, cfg.lateral_offsets_km)
       IN  /\ slices_nodes' = r.val
           /\ pc' = IF r.exc = "none" THEN "build_graph_nodes" ELSE "raised"
           /\ error' = r.exc
    /\ stages' = stages \cup {"geometry"}
    /\ UNCHANGED << cfg, field, endpoints, result >>
    /\ UNCHANGED graphVars
    /\ UNCHANGED searchVars
    /\ UNCHANGED auxVars

\* build_graph, lines 55-61: the empty cache and the nodes
BuildGraphNodes ==
    /\ pc = "build_graph_nodes"
    /\ G' = [nodes |-> [n \in NodeIds(slices_nodes) |-> slices_nodes[n[1] + 1][n[2] + 1]],
             adj   |-> [n \in NodeIds(slices_nodes) |-> << >>],
             edges |-> << >>]
    /\ wind_cache' = << >>
    /\ edge_idx' = 1
    /\ pc' = "build_graph_edges"
    /\ stages' = stages \cup {"graph"}
    /\ UNCHANGED << cfg, field, error, slices_nodes, provider_calls, failures,
                    edge_trace, endpoints, result >>
    /\ UNCHANGED searchVars
    /\ UNCHANGED auxVars

\* What the wind lookup of one edge can meet: no provider call (wind off, or
\* the key is cached), a provider answer, or one of the provider's exceptions.
WindOutcomes(use_wind, cache, key, failed) ==
    IF ~use_wind \/ key \in DOMAIN cache THEN {"no call"}
    ELSE {"ok"} \cup (IF failed < MaxFailures THEN ProviderFailures ELSE {})

\* build_graph, lines 71-78: the cache and the wind w after the lookup.
\* `fetched` is what get_current_wind returns when it returns.
wind_lookup(use_wind, cache, key, outcome, fetched) ==
    IF ~use_wind THEN [cache |-> cache, w |-> ZeroWind]
    ELSE IF outcome = "no call" THEN [cache |-> cache, w |-> cache[key]]
    ELSE IF outcome = "ok" THEN [cache |-> (key :> fetched) @@ cache, w |-> fetched]
    ELSE [cache |-> cache, w |-> ZeroWind]

\* build_graph, lines 63-82: one pass of the innermost loop.  The loop
\* position e and the edge's d and bearing are each bound once for the pass.
BuildGraphEdge ==
    /\ pc = "build_graph_edges"
    /\ edge_idx <= Len(EdgesInOrder(slices_nodes))
    /\ \E e \in {EdgesInOrder(slices_nodes)[edge_idx]} :
       LET u == << e[1], e[2] >>
           v == EdgeTarget(e[1], e[2], e[3])
           p1 == slices_nodes[e[1] + 1][e[2] + 1]
           p2 == slices_nodes[e[1] + 2][e[3] + 1]
           mid_lat == Mid(p1[1], p2[1])
           mid_lon == Mid(p1[2], p2[2])
       IN  \E d \in {haversine_km(p1[1], p1[2], p2[1], p2[2])},
              bearing \in {bearing_between(p1[1], p1[2], p2[1], p2[2])},
              key \in {<< Round4(mid_lat), Round4(mid_lon) >>} :
           \E outcome \in WindOutcomes(cfg.use_wind, wind_cache, key, failures) :
             LET called == outcome # "no call"
                 raised == outcome \in ProviderFailures
                 looked == wind_lookup(cfg.use_wind, wind_cache, key, outcome,
                                       WindAt(field, mid_lat, mid_lon))
                 w == looked.w
                 tail == tailwind_component_kmh(w.windspeed_kmh, w.winddirection_deg, bearing)
                 ground_speed == ground_speed_of(cfg.cruise_kmh, tail)
                 travel_time_h == Hours(d, ground_speed)
             IN  /\ provider_calls' =
                        IF called
                        THEN (key :> (IF key \in DOMAIN provider_calls
                                      THEN provider_calls[key] + 1 ELSE 1)) @@ provider_calls
                        ELSE provider_calls
                 /\ failures' = IF raised THEN failures + 1 ELSE failures
                 /\ stages' = IF called THEN stages \cup {"wind"} ELSE stages
                 /\ IF raised /\ ~CaughtInBuildGraph(outcome)
                    THEN /\ pc' = "raised"
                         /\ error' = outcome
                         /\ UNCHANGED << G, wind_cache, edge_idx, edge_trace >>
                    ELSE /\ wind_cache' = looked.cache
                         /\ G' = add_edge(G, u, v, [weight |-> travel_time_h,
                                                    distance_km |-> d])
                         /\ edge_trace' =
                                (<< u, v >> :> [key |-> key, called |-> called,
                                                raised |-> raised, w |-> w, tail |-> tail,
                                                ground_speed |-> ground_speed]) @@ edge_trace
                         /\ edge_idx' = edge_idx + 1
                         /\ UNCHANGED << pc, error >>
    /\ UNCHANGED << cfg, field, slices_nodes, endpoints, result >>
    /\ UNCHANGED searchVars
    /\ UNCHANGED auxVars

\* build_graph, line 83: the loops are over
BuildGraphReturn ==
    /\ pc = "build_graph_edges"
    /\ edge_idx > Len(EdgesInOrder(slices_nodes))
    /\ pc' = "find_endpoints_nodes"
    /\ UNCHANGED << cfg, field, error, stages, slices_nodes, endpoints, result >>
    /\ UNCHANGED graphVars
    /\ UNCHANGED searchVars
    /\ UNCHANGED auxVars

\* run_optimization, line 116
FindEndpoints ==
    /\ pc = "find_endpoints_nodes"
    /\ LET r == find_endpoints_nodes(slices_nodes)
       IN  IF r.exc = "none"
           THEN /\ endpoints' = r.val
                /\ pc' = "astar_path"
                /\ UNCHANGED error
           ELSE /\ pc' = "raised"
                /\ error' = r.exc
                /\ UNCHANGED endpoints
    /\ UNCHANGED << cfg, field, stages, slices_nodes, result >>
    /\ UNCHANGED graphVars
    /\ UNCHANGED searchVars
    /\ UNCHANGED auxVars

\* astar_path up to its loop: NodeNotFound when an endpoint is not in G, which
\* run_optimization turns into RuntimeError (lines 118-121)
AStarBegin ==
    /\ pc = "astar_path"
    /\ stages' = stages \cup {"search"}
    /\ IF endpoints[1] \notin DOMAIN G.nodes \/ endpoints[2] \notin DOMAIN G.nodes
       THEN /\ pc' = "raised"
            /\ error' = "RuntimeError"
            /\ UNCHANGED << queue, counter >>
       ELSE /\ queue' = {[f |-> 0, c |-> 0, node |-> endpoints[1], cost |-> 0,
                          parent |-> NoNode]}
            /\ counter' = 1
            /\ pc' = "astar_loop"
            /\ UNCHANGED error
    /\ UNCHANGED << cfg, field, slices_nodes, endpoints, result, enqueued, explored, path >>
    /\ UNCHANGED graphVars
    /\ UNCHANGED auxVars

\* astar_path: one pass of `while queue`; NetworkXNoPath when the heap is
\* empty, which run_optimization turns into RuntimeError
AStarStep ==
    /\ pc = "astar_loop"
    /\ IF queue = {}
       THEN /\ pc' = "raised"
            /\ error' = "RuntimeError"
            /\ UNCHANGED searchVars
       ELSE LET top == QueueMin(queue)
                rest == queue \ {top}
                curnode == top.node
            IN  IF curnode = endpoints[2]
                THEN /\ path' = PathTo(explored, top.parent, << curnode >>)
                     /\ queue' = rest
                     /\ pc' = "report"
                     /\ UNCHANGED << error, enqueued, explored, counter >>
                ELSE IF /\ curnode \in DOMAIN explored
                        /\ \/ explored[curnode] = NoNode
                           \/ enqueued[curnode].cost < top.cost
                THEN /\ queue' = rest
                     /\ UNCHANGED << pc, error, enqueued, explored, counter, path >>
                ELSE LET st == Relax([queue |-> rest, enqueued |-> enqueued, c |-> counter],
                                     G, curnode, top.cost, G.adj[curnode],
                                     endpoints[2], cfg.cruise_kmh)
                     IN  /\ explored' = (curnode :> top.parent) @@ explored
                         /\ queue' = st.queue
                         /\ enqueued' = st.enqueued
                         /\ counter' = st.c
                         /\ UNCHANGED << pc, error, path >>
    /\ UNCHANGED << cfg, field, stages, slices_nodes, endpoints, result >>
    /\ UNCHANGED graphVars
    /\ UNCHANGED auxVars

\* run_optimization, lines 122-128 and 142: the optimized and the naive time
Report ==
    /\ pc = "report"
    /\ LET gc_pts == great_circle_points(cfg.lat1, cfg.lon1, cfg.lat2, cfg.lon2,
                                         cfg.slices * 2)
       IN  IF gc_pts.exc = "none"
           THEN LET gc_dist == PolylineLength(gc_pts.val)
                IN  /\ result' = [gc_km |-> gc_dist,
                                  naive_h |-> Hours(gc_dist, cfg.cruise_kmh),
                                  opt_h |-> PathWeight(G, path)]
                    /\ pc' = "done"
                    /\ UNCHANGED error
           ELSE /\ pc' = "raised"
                /\ error' = gc_pts.exc
                /\ UNCHANGED result
    /\ UNCHANGED << cfg, field, stages, slices_nodes, endpoints >>
    /\ UNCHANGED graphVars
    /\ UNCHANGED searchVars
    /\ UNCHANGED auxVars

Next ==
    \/ BuildCorridorSlices
    \/ BuildGraphNodes
    \/ BuildGraphEdge
    \/ BuildGraphReturn
    \/ FindEndpoints
    \/ AStarBegin
    \/ AStarStep
    \/ Report

Spec == Init /\ [][Next]_vars

\* ------------------------------------------------------- derived notions
SetOf(seq) == {seq[n] : n \in 1..Len(seq)}

MinOf(S) == CHOOSE m \in S : \A o \in S : m <= o

\* build_graph has returned
GraphBuilt ==
    /\ "graph" \in stages
    /\ pc \notin {"build_graph_nodes", "build_graph_edges"}
    /\ error \notin ProviderFailures

\* find_endpoints_nodes has returned a pair
EndpointsChosen == endpoints[1] # NoNode

\* the arguments spec.md calls a well-formed corridor
WellFormed == cfg.slices >= 1 /\ Len(cfg.lateral_offsets_km) >= 1

\* every pair of nodes in consecutive layers
LayerEdges(nodes) == {<< u, v >> \in nodes \X nodes : v[1] = u[1] + 1}

\* the least total weight of a path from n to target in the graph; -1: no path
RECURSIVE MinRemaining(_, _, _)
MinRemaining(graph, n, target) ==
    IF n = target THEN 0
    ELSE LET rest == [v \in SetOf(graph.adj[n]) |-> MinRemaining(graph, v, target)]
             totals == {graph.edges[<< n, v >>].weight + rest[v] :
                           v \in {x \in DOMAIN rest : rest[x] >= 0}}
         IN  IF totals = {} THEN -1 ELSE MinOf(totals)

\* ----------------------------------------------------------------- claims

\* C1: with use_wind on, no provider exception leaves build_graph; an edge whose
\* wind query raised carries the zero-wind weight, distance / max(40, cruise);
\* every pass of the loop adds its edge, and the finished graph has every
\* layer-to-layer edge.
C1_WindFailureRecovered ==
    /\ error \notin ProviderFailures
    /\ \A e \in DOMAIN edge_trace :
          edge_trace[e].raised =>
             /\ e \in DOMAIN G.edges
             /\ edge_trace[e].w = ZeroWind
             /\ G.edges[e].weight =
                   Hours(G.edges[e].distance_km, Max(MinGroundSpeed, cfg.cruise_kmh))
    /\ pc = "build_graph_edges" => Cardinality(DOMAIN G.edges) = edge_idx - 1
    /\ GraphBuilt => DOMAIN G.edges = LayerEdges(NodeIds(slices_nodes))

\* a run that finished although a query failed where the wind was not zero
C1_Witness ==
    /\ pc = "done"
    /\ cfg.use_wind
    /\ \E e \in DOMAIN edge_trace :
          /\ edge_trace[e].raised
          /\ WindAt(field, edge_trace[e].key[1], edge_trace[e].key[2]) # ZeroWind

\* C2: within one build_graph run the provider is invoked at most once per
\* rounded midpoint key, failed queries included.
C2_OneCallPerKey ==
    \A k \in DOMAIN provider_calls : provider_calls[k] <= 1

\* C3: the path astar_path returns has the least total weight of all paths
\* from the start node to the goal node.
C3_PathIsMinimal ==
    pc \in {"report", "done"} =>
        PathWeight(G, path) <= MinRemaining(G, endpoints[1], endpoints[2])

\* what the fixed-point rounding of distances and times can add up to along
\* one path: less than one distance step and one time step per edge
RoundingSlack == Len(slices_nodes) * (Hours(1, cfg.cruise_kmh) + 1)

\* C4: the heuristic never exceeds the least remaining travel time: for every
\* node n of the built graph from which the goal can be reached,
\* heuristic(n) <= the least total weight of a path from n to the goal (to
\* within the rounding of the fixed-point times).
C4_HeuristicAdmissible ==
    (GraphBuilt /\ EndpointsChosen /\ endpoints[2] \in DOMAIN G.nodes) =>
        \A n \in DOMAIN G.nodes :
            MinRemaining(G, n, endpoints[2]) >= 0 =>
                heuristic(n, endpoints[2], G, cfg.cruise_kmh)
                    <= MinRemaining(G, n, endpoints[2]) + RoundingSlack

\* C5: a run with slices < 1 or no lateral offsets does no geometry, graph,
\* wind or search work and ends in the invalid-configuration error, no other.
C5_InvalidConfigRejected ==
    ~WellFormed =>
        /\ stages = {}
        /\ pc \in {"build_corridor_slices", "raised"}
        /\ pc = "raised" => error = "InvalidConfiguration"

\* C6: when the offsets list contains 0, the start node is the node of layer 0
\* whose offset is 0 and the goal the node of the same lateral index in the
\* last layer.
C6_StartIsZeroOffset ==
    (EndpointsChosen /\ 0 \in SetOf(cfg.lateral_offsets_km)) =>
        /\ endpoints[1][1] = 0
        /\ cfg.lateral_offsets_km[endpoints[1][2] + 1] = 0
        /\ endpoints[2] = << Len(slices_nodes) - 1, endpoints[1][2] >>

\* C7: the graph is layered and complete bipartite between consecutive layers:
\* every edge leads from a node of layer i to a node of layer i+1, and once
\* build_graph has returned every such pair is an edge (and the adjacency
\* lists hold exactly the edges).
C7_LayeredCompleteBipartite ==
    /\ \A e \in DOMAIN G.edges :
          /\ e[1] \in DOMAIN G.nodes
          /\ e[2] \in DOMAIN G.nodes
          /\ e[2][1] = e[1][1] + 1
    /\ \A u \in DOMAIN G.adj :
          /\ \A v \in SetOf(G.adj[u]) : << u, v >> \in DOMAIN G.edges
          /\ Len(G.adj[u]) = Cardinality({e \in DOMAIN G.edges : e[1] = u})
    /\ GraphBuilt =>
          /\ DOMAIN G.nodes = NodeIds(slices_nodes)
          /\ DOMAIN G.edges = LayerEdges(DOMAIN G.nodes)

\* a finished graph of three layers of three nodes
C7_Witness ==
    /\ GraphBuilt
    /\ Len(slices_nodes) = 3
    /\ Cardinality(DOMAIN G.edges) = 18

\* C8: the ground speed of every edge is max(40, cruise + tailwind), so never
\* below 40, and the edge's travel time is distance / ground speed, finite and
\* not negative.
C8_GroundSpeedFloor ==
    \A e \in DOMAIN edge_trace :
        LET t == edge_trace[e]
            a == G.edges[e]
        IN  /\ t.ground_speed >= MinGroundSpeed
            /\ t.ground_speed >= cfg.cruise_kmh + t.tail
            /\ t.ground_speed \in {MinGroundSpeed, cfg.cruise_kmh + t.tail}
            /\ a.weight >= 0
            /\ a.weight * t.ground_speed <= a.distance_km * TimeScale
            /\ a.distance_km * TimeScale < (a.weight + 1) * t.ground_speed

\* cruise 50 against a 200 km/h direct headwind: the floor is what is used
C8_Witness ==
    \E e \in DOMAIN edge_trace :
        /\ cfg.cruise_kmh = 50
        /\ edge_trace[e].tail = -200
        /\ edge_trace[e].ground_speed = MinGroundSpeed
        /\ G.edges[e].distance_km > 0

\* the sum of the costs astar_path has recorded for the nodes of S
RECURSIVE CostSum(_, _)
CostSum(enq, S) ==
    IF S = {} THEN 0
    ELSE LET v == CHOOSE x \in S : TRUE
         IN  enq[v].cost + CostSum(enq, S \ {v})

\* One pass of astar_path's loop that does not return makes progress: it
\* records a node it had not seen, or lowers a recorded cost, or else only
\* shortens the heap.  No run of the loop is endless.
SearchProgress ==
    (pc = "astar_loop" /\ pc' = "astar_loop") =>
        \/ DOMAIN enqueued' # DOMAIN enqueued /\ DOMAIN enqueued \subseteq DOMAIN enqueued'
        \/ /\ DOMAIN enqueued' = DOMAIN enqueued
           /\ CostSum(enqueued', DOMAIN enqueued) < CostSum(enqueued, DOMAIN enqueued)
        \/ /\ enqueued' = enqueued
           /\ Cardinality(queue') < Cardinality(queue)

\* on a well-formed corridor: nothing is raised, the open set never runs
\* empty, and the path returned leads from the start node to the goal node
SearchOutcome ==
    /\ WellFormed =>
          /\ error = "none"
          /\ pc = "astar_loop" => queue # {}
          /\ pc \in {"report", "done"} =>
                /\ Len(path) = Len(slices_nodes)
                /\ path[1] = endpoints[1]
                /\ path[Len(path)] = endpoints[2]
    /\ ("search" \in stages /\ pc \notin {"astar_loop", "report", "done"}) =>
          (pc = "raised" /\ error = "RuntimeError")

\* C9: on a well-formed corridor (slices >= 1, offsets not empty) the search
\* ends, and with success: the run raises nothing, the open set never runs
\* empty before the goal is popped, every pass of the search loop makes
\* progress, and the path found leads from the start node to the goal node;
\* and a search that fails ends the run with RuntimeError.
C9_SearchSucceeds == [](SearchOutcome) /\ [][SearchProgress]_vars

\* a search through three layers under the jet that ended with success
C9_Witness ==
    /\ pc = "done"
    /\ WellFormed
    /\ field = "jet"
    /\ Len(path) = 3
    /\ Cardinality(DOMAIN explored) >= 3

\* C10: for slices = S >= 1, build_corridor_slices returns S layers of
\* len(offsets) nodes each, in the order of the offsets: the node of offset 0 is
\* the midpoint of its great-circle segment, a positive offset is projected at
\* bearing+90 and a negative one at bearing-90, by the absolute offset.  (On the
\* eastward route that puts a positive offset south of the midpoint and a
\* negative one north of it, at the midpoint's longitude.)
C10_CorridorShape ==
    (cfg.slices >= 1 /\ pc # "build_corridor_slices") =>
        LET gc == great_circle_points(cfg.lat1, cfg.lon1, cfg.lat2, cfg.lon2, cfg.slices).val
            offs == cfg.lateral_offsets_km
        IN  /\ error # "ZeroDivisionError"
            /\ Len(slices_nodes) = cfg.slices
            /\ \A i \in 1..Len(slices_nodes) :
                  LET a == gc[i]
                      b == gc[i + 1]
                      mid == << Mid(a[1], b[1]), Mid(a[2], b[2]) >>
                      bearing == bearing_between(a[1], a[2], b[1], b[2])
                  IN  /\ Len(slices_nodes[i]) = Len(offs)
                      /\ \A n \in 1..Len(offs) :
                            /\ offs[n] = 0 => slices_nodes[i][n] = mid
                            /\ offs[n] > 0 => slices_nodes[i][n] =
                                  destination_point(mid[1], mid[2],
                                                    (bearing + 90) % 360, offs[n])
                            /\ offs[n] < 0 => slices_nodes[i][n] =
                                  destination_point(mid[1], mid[2],
                                                    (bearing - 90) % 360, -offs[n])
                            /\ (cfg.lat2 = cfg.lat1 /\ cfg.lon2 > cfg.lon1) =>
                                  slices_nodes[i][n] = << mid[1] - offs[n], mid[2] >>

\* the 3 x 3 corridor of the eastward route
C10_Witness ==
    /\ pc = "build_graph_nodes"
    /\ cfg.slices = 3
    /\ cfg.lateral_offsets_km = << -6, 0, 6 >>
    /\ slices_nodes[2] = << << 6, 48 >>, << 0, 48 >>, << -6, 48 >> >>

\* no two entries of the open set carry the same insertion count, and every
\* count handed out is below the counter
DistinctCounts ==
    \A a \in queue : a.c < counter /\ \A b \in queue : a.c = b.c => a = b

\* one pass of the search loop takes exactly one entry off the open set: the
\* one of least f = g + h, and among those of least f the one inserted first;
\* what the pass inserts is counted on from the counter, one count per entry
PopsEarliestOfLeast ==
    (pc = "astar_loop" /\ queue # {}) =>
        /\ \E top \in queue :
              /\ queue \ queue' = {top}
              /\ \A o \in queue : top.f < o.f \/ (top.f = o.f /\ top.c <= o.c)
              /\ \A o \in queue : (o.f = top.f /\ o.c = top.c) => o = top
        /\ {n.c : n \in queue' \ queue} = counter..(counter' - 1)
        /\ Cardinality(queue' \ queue) = counter' - counter

\* C11: the search is deterministic: the open set is totally ordered by
\* (f, insertion count), so every pass expands one determined entry, nodes of
\* equal f in the order they were inserted; and the time reported is the
\* weight of the path returned.
C11_DeterministicSearch ==
    /\ [](DistinctCounts)
    /\ [][PopsEarliestOfLeast]_vars
    /\ [](pc = "done" => result.opt_h = PathWeight(G, path))

\* the search loop about to choose between two unexpanded nodes of equal least f
C11_Witness ==
    /\ pc = "astar_loop"
    /\ \E a \in queue, b \in queue :
          /\ a.node # b.node
          /\ a.f = b.f
          /\ a.c < b.c
          /\ \A o \in queue : a.f <= o.f
          /\ a.node \notin DOMAIN explored
          /\ b.node \notin DOMAIN explored

\* the offset of the n-th node of the returned path
PathOffset(n) == cfg.lateral_offsets_km[path[n][2] + 1]

\* C12: with zero wind everywhere (or use_wind off) and 0 among the offsets,
\* the optimized time reported equals the naive time (to within the rounding
\* of the fixed-point times) and the path holds only zero-offset nodes.
C12_CalmEqualsNaive ==
    (pc = "done" /\ field = "calm" /\ 0 \in SetOf(cfg.lateral_offsets_km)) =>
        /\ Abs(result.opt_h - result.naive_h) <= 3 * RoundingSlack
        /\ \A n \in 1..Len(path) : PathOffset(n) = 0

\* the wind used is the same on every edge: use_wind off, or one wind
\* everywhere and no query failed
UniformWind ==
    /\ field \in {"calm", "westerly", "easterly"}
    /\ \A e \in DOMAIN edge_trace : ~edge_trace[e].raised

\* C13: with one cruise speed, one wind everywhere and 0 among the offsets,
\* the optimized time is at most the naive time distance / cruise_kmh (to
\* within the rounding of the fixed-point times).
C13_NeverWorseThanNaive ==
    (pc = "done" /\ UniformWind /\ 0 \in SetOf(cfg.lateral_offsets_km)) =>
        result.opt_h <= result.naive_h + 3 * RoundingSlack

\* ------------------------------------------- library functions on their own
\* run_optimization is not running
NotRunning ==
    /\ cfg = << >>
    /\ pc = "idle"
    /\ error = "none"
    /\ stages = {}
    /\ slices_nodes = << >>
    /\ G = EmptyGraph
    /\ wind_cache = << >>
    /\ edge_idx = 1
    /\ provider_calls = << >>
    /\ edge_trace = << >>
    /\ endpoints = << NoNode, NoNode >>
    /\ queue = {}
    /\ enqueued = << >>
    /\ explored = << >>
    /\ counter = 0
    /\ path = << >>
    /\ result = [gc_km |-> 0, naive_h |-> 0, opt_h |-> 0]

\* the provider is not involved
NoWeather ==
    /\ field = "calm"
    /\ failures = 0

\* run_optimization's own variables, the weather aside
runVars == << cfg, pc, error, stages, slices_nodes, G, wind_cache, edge_idx,
              provider_calls, edge_trace, endpoints, queue, enqueued, explored,
              counter, path, result >>

optVars == << cfg, field, pc, error, stages, slices_nodes, G, wind_cache, edge_idx,
              provider_calls, failures, edge_trace, endpoints, queue, enqueued,
              explored, counter, path, result >>

\* 180 degrees of longitude, in grid units
AntiMeridian == 180 * UnitsPerDeg

\* the arguments the functions are called with
WindSpeeds == { 0, 1, 37, 200 }
Bearings == { b \in 0..359 : b % 15 = 0 } \cup { 1, 179, 181, 359 }
TailwindArgs == WindSpeeds \X (0..359) \X Bearings
DestinationArgs ==
    { 0, 40 } \X { 0, AntiMeridian - 2, AntiMeridian - 1, AntiMeridian, 1 - AntiMeridian }
        \X { 0, 45, 90, 180, 270 } \X { 0, 1, 2, 3 }

CallInit ==
    /\ NotRunning
    /\ NoWeather
    /\ NoTiming
    /\ fn \in { "tailwind_component_kmh", "destination_point" }
    /\ args \in (IF fn = "tailwind_component_kmh" THEN TailwindArgs ELSE DestinationArgs)
    /\ ret = [done |-> FALSE, val |-> 0]

CallTailwind ==
    /\ fn = "tailwind_component_kmh"
    /\ ~ret.done
    /\ ret' = [done |-> TRUE, val |-> tailwind_component_kmh(args[1], args[2], args[3])]
    /\ UNCHANGED << fn, args >>
    /\ UNCHANGED optVars
    /\ UNCHANGED timeVars

CallDestination ==
    /\ fn = "destination_point"
    /\ ~ret.done
    /\ ret' = [done |-> TRUE, val |-> destination_point(args[1], args[2], args[3], args[4])]
    /\ UNCHANGED << fn, args >>
    /\ UNCHANGED optVars
    /\ UNCHANGED timeVars

CallNext ==
    \/ CallTailwind
    \/ CallDestination

CallSpec == CallInit /\ [][CallNext]_vars

\* C14: for a wind speed >= 0 and directions in [0, 360),
\* tailwind_component_kmh returns speed * cos(diff), diff being the angle from
\* the bearing to the direction the wind blows to, (from + 180) mod 360,
\* brought into [-180, 180]; so |result| <= speed, the result is +speed for a
\* wind blowing along the bearing and -speed for one blowing against it.
C14_TailwindComponent ==
    (fn = "tailwind_component_kmh" /\ ret.done) =>
        LET speed == args[1]
            wind_to == (args[2] + 180) % 360
            bearing == args[3]
        IN  /\ \E diff \in -180..180 :
                  /\ (diff - (wind_to - bearing)) % 360 = 0
                  /\ ret.val = RoundDiv(speed * Cos(diff), TrigScale)
            /\ Abs(ret.val) <= speed
            /\ wind_to = bearing => ret.val = speed
            /\ args[2] = bearing => ret.val = -speed

\* a 200 km/h wind from the west behind an aircraft flying east
C14_Witness ==
    /\ fn = "tailwind_component_kmh"
    /\ ret.done
    /\ args = << 200, 270, 90 >>
    /\ ret.val = 200

\* C15: the longitude destination_point returns lies in (-180, 180]: never
\* -180 or below, a position on the antimeridian being reported as +180.
C15_LongitudeHalfOpen ==
    (fn = "destination_point" /\ ret.done) =>
        /\ ret.val[2] > -AntiMeridian
        /\ ret.val[2] <= AntiMeridian

\* ------------------------------- main.py: compute_wind_adjusted_time_hours
MaxSegments == 5        \* most segments of a route given to the function
MaxSampleRate == 3      \* largest sample_rate it is called with

TimeRoutes == { << 0, 0, 0, 96 >>, << 0, 0, 0, 8 >>, << 0, 0, 0, 0 >> }

TimeInit ==
    /\ NotRunning
    /\ NoCall
    /\ field \in WindFields
    /\ failures = 0
    /\ \E r \in TimeRoutes, n \in 1..MaxSegments, c \in CruiseSpeeds,
          sr \in 0..MaxSampleRate :
          time_args = [points |-> great_circle_points(r[1], r[2], r[3], r[4], n).val,
                       cruise_kmh |-> c, sample_rate |-> sr]
    /\ time_pc = "loop"
    /\ time_error = "none"
    /\ seg_i = 0
    /\ seg_cache = << >>
    /\ total_hours = 0
    /\ seg_trace = << >>

\* (variant: every segment is sampled)
Sampled_every_segment(i, sample_rate) ==
    IF sample_rate = 0 THEN Raise("ZeroDivisionError") ELSE Ok(TRUE)

\* (i % sample_rate) == 0
Sampled(i, sample_rate) ==
    IF sample_rate = 0 THEN Raise("ZeroDivisionError") ELSE Ok(i % sample_rate = 0)

\* what a pass of the loop can meet at the provider
SampleOutcomes(sampled, failed) ==
    IF ~sampled THEN {"no call"}
    ELSE {"ok"} \cup (IF failed < MaxFailures THEN ProviderFailures ELSE {})

\* wind_cache.get(key, zero wind)
CacheGet(cache, key) == IF key \in DOMAIN cache THEN cache[key] ELSE ZeroWind

\* one pass of `for i in range(len(points)-1)`
TimeSegment ==
    /\ time_pc = "loop"
    /\ seg_i < Len(time_args.points) - 1
    /\ LET p1 == time_args.points[seg_i + 1]
           p2 == time_args.points[seg_i + 2]
           mid_lat == Mid(p1[1], p2[1])
           mid_lon == Mid(p1[2], p2[2])
           sampled == Sampled(seg_i, time_args.sample_rate)
       IN  IF sampled.exc # "none"
           THEN /\ time_pc' = "raised"
                /\ time_error' = sampled.exc
                /\ UNCHANGED << failures, seg_i, seg_cache, total_hours, seg_trace >>
           ELSE \E seg_km \in {haversine_km(p1[1], p1[2], p2[1], p2[2])},
                   bearing \in {bearing_between(p1[1], p1[2], p2[1], p2[2])},
                   key \in {<< Round4(mid_lat), Round4(mid_lon) >>} :
                \E outcome \in SampleOutcomes(sampled.val, failures) :
                  LET raised == outcome \in ProviderFailures
                      cache == IF outcome = "ok"
                               THEN (key :> WindAt(field, mid_lat, mid_lon)) @@ seg_cache
                               ELSE IF raised THEN (key :> ZeroWind) @@ seg_cache
                               ELSE seg_cache
                      w == CacheGet(cache, key)
                      tail_kmh == tailwind_component_kmh(w.windspeed_kmh,
                                                         w.winddirection_deg, bearing)
                      ground_speed == Max(MinGroundSpeed, time_args.cruise_kmh + tail_kmh)
                      seg_hours == Hours(seg_km, ground_speed)
                  IN  /\ failures' = IF raised THEN failures + 1 ELSE failures
                      /\ seg_cache' = cache
                      /\ total_hours' = total_hours + seg_hours
                      /\ seg_trace' =
                            (seg_i :> [calls |-> IF outcome = "no call" THEN 0 ELSE 1,
                                       raised |-> raised, key |-> key, w |-> w,
                                       cached |-> CacheGet(cache, key),
                                       bearing |-> bearing, tail_kmh |-> tail_kmh,
                                       ground_speed |-> ground_speed,
                                       seg_km |-> seg_km, seg_hours |-> seg_hours])
                            @@ seg_trace
                      /\ seg_i' = seg_i + 1
                      /\ UNCHANGED << time_pc, time_error >>
    /\ UNCHANGED << time_args, field >>
    /\ UNCHANGED runVars
    /\ UNCHANGED callVars

\* return total_hours
TimeReturn ==
    /\ time_pc = "loop"
    /\ seg_i >= Len(time_args.points) - 1
    /\ time_pc' = "done"
    /\ UNCHANGED << time_args, time_error, seg_i, seg_cache, total_hours, seg_trace >>
    /\ UNCHANGED << field, failures >>
    /\ UNCHANGED runVars
    /\ UNCHANGED callVars

TimeNext ==
    \/ TimeSegment
    \/ TimeReturn

TimeSpec == TimeInit /\ [][TimeNext]_vars

\* the segment times recorded for the segments 0..(n-1)
RECURSIVE SegHoursSum(_, _)
SegHoursSum(trace, n) ==
    IF n = 0 THEN 0 ELSE trace[n - 1].seg_hours + SegHoursSum(trace, n - 1)

RECURSIVE PathEdgeSum(_)
PathEdgeSum(n) ==
    IF n = 0 THEN 0
    ELSE G.edges[<< path[n], path[n + 1] >>].weight + PathEdgeSum(n - 1)

\* C17: a search that succeeds on a corridor of L layers returns L nodes, the
\* k-th in layer k, from the start node to the goal node, each consecutive
\* pair an edge of the graph; the optimized time reported is the sum of the
\* weights of those L-1 edges (0 for L = 1, where start and goal coincide).
C17_PathThroughLayers ==
    (pc \in {"report", "done"}) =>
        LET L == Len(slices_nodes)
        IN  /\ Len(path) = L
            /\ \A k \in 1..Len(path) : path[k][1] = k - 1 /\ path[k] \in DOMAIN G.nodes
            /\ path[1] = endpoints[1]
            /\ path[Len(path)] = endpoints[2]
            /\ \A k \in 1..(Len(path) - 1) : << path[k], path[k + 1] >> \in DOMAIN G.edges
            /\ pc = "done" =>
                  /\ result.opt_h = PathEdgeSum(Len(path) - 1)
                  /\ L = 1 => (result.opt_h = 0 /\ endpoints[1] = endpoints[2])

\* a finished run whose path of three nodes leaves the lateral index of the
\* start node in the middle layer
C17_Witness ==
    /\ pc = "done"
    /\ Len(path) = 3
    /\ path[2][2] # path[1][2]
    /\ result.opt_h > 0

====
